---- MODULE Spec2Model ----
(***************************************************************************)
(* aoscbootstrap: the pipeline driver of src/main.rs as a state machine.   *)
(*                                                                         *)
(* One action per statement of main() that calls out or can fail.  Every   *)
(* fallible call of main() is followed by .unwrap(): an Err panics, which  *)
(* ends the process (status = "failed").  The collaborators in the modules *)
(* cli, fs, guest, install, network and solv are called through their      *)
(* interfaces: each either succeeds with its documented effect on the      *)
(* target directory, or fails.                                             *)
(***************************************************************************)
EXTENDS Integers, Sequences, FiniteSets, TLC

(***************************************************************************)
(* Bounds of the model.                                                    *)
(***************************************************************************)
\* longest package list a solve returns
MaxPkgs == 2
\* largest magnitude, in kB, of a size change a solve reports
MaxSize == 2
\* most --scripts fragments on the command line
MaxScripts == 2
\* most names in a list of the configuration or of --include
MaxNames == 1
\* most --arch values on the command line
MaxArches == 2
\* most characters of a line of an --include-files list
MaxLineLen == 2
\* most lines in the --include-files lists together
MaxLines == 2

(***************************************************************************)
(* u64 arithmetic.  A u64 is four 16-bit limbs, most significant first,    *)
(* so that the full 64-bit width is kept.                                  *)
(***************************************************************************)
LimbBase == 65536
KiB == 1024

U64Of(n) == <<0, 0, n \div LimbBase, n % LimbBase>>
U64Max == <<LimbBase - 1, LimbBase - 1, LimbBase - 1, LimbBase - 1>>

\* `x as u64` for an i64 x with |x| < 2^16: two's complement reinterpretation
AsU64(x) ==
    IF x >= 0 THEN U64Of(x)
    ELSE <<LimbBase - 1, LimbBase - 1, LimbBase - 1, LimbBase + x>>

\* a < b on u64
LtU64(a, b) ==
    \E i \in 1..4 : a[i] < b[i] /\ \A j \in 1..(i - 1) : a[j] = b[j]

\* a / 1024 on u64 (integer division: a shift right by ten bits)
DivKiB(a) ==
    [i \in 1..4 |->
        (a[i] \div KiB) + (IF i = 1 THEN 0 ELSE (a[i - 1] % KiB) * (LimbBase \div KiB))]

\* a - b on u64 where a >= b; <<>> where the subtraction would overflow
SubU64(a, b) ==
    IF LtU64(a, b) THEN <<>>
    ELSE LET bw[i \in 1..5] ==
                 IF i = 5 THEN 0
                 ELSE IF a[i] - b[i] - bw[i + 1] < 0 THEN 1 ELSE 0
         IN [i \in 1..4 |-> (a[i] - b[i] - bw[i + 1]) % LimbBase]

\* check_disk_usage(required, target), given what available_space(target)
\* reads: Ok, or Err carrying the deficit the message reports
\* U64Of(n) for the n that fit one limb pair
ToNat(a) == a[3] * LimbBase + a[4]

IsSmall(a) == a[1] = 0 /\ a[2] = 0 /\ a[3] < LimbBase \div 2

\* a * 1024 on u64, <<>> where the product does not fit
MulKiB(a) ==
    IF a[1] >= LimbBase \div KiB THEN <<>>
    ELSE [i \in 1..4 |->
            (a[i] % (LimbBase \div KiB)) * KiB
            + (IF i = 4 THEN 0 ELSE a[i + 1] \div (LimbBase \div KiB))]

check_disk_usage_le(required, available) ==
    IF LtU64(DivKiB(available), required) \/ DivKiB(available) = required
    THEN [ok |-> FALSE, deficit |-> SubU64(required, DivKiB(available))]
    ELSE [ok |-> TRUE, deficit |-> U64Of(0)]

check_disk_usage(required, available) ==
    IF LtU64(DivKiB(available), required)
    THEN [ok |-> FALSE, deficit |-> SubU64(required, DivKiB(available))]
    ELSE [ok |-> TRUE, deficit |-> U64Of(0)]

(***************************************************************************)
(* Packages.  A PackageMeta is a name and a repository-relative path; a    *)
(* path is its sequence of components.                                     *)
(***************************************************************************)
None == "None"

Universe ==
    { [name |-> "dpkg", path |-> <<"pool", "dpkg.deb">>],
      [name |-> "bash", path |-> <<"pool", "bash.deb">>],
      [name |-> "odd",  path |-> <<"pool", "..">>] }

\* Path::file_name: the final component, None when the path ends in `..`
\* or has no component at all
file_name(path) ==
    IF path = <<>> \/ path[Len(path)] = ".." THEN None ELSE path[Len(path)]

FileNames == { file_name(p.path) : p \in Universe } \ {None}

\* the package lists a solve can return: no package twice
PackageLists ==
    { s \in UNION { [1..n -> Universe] : n \in 0..MaxPkgs } :
        \A i, j \in DOMAIN s : i # j => s[i] # s[j] }

\* the signed size change, in kB, a solve can report
SizeChanges == (-MaxSize)..MaxSize

\* what available_space can read: nothing, one byte short of MaxSize kB,
\* exactly MaxSize kB, and a full u64
AvailableSpaces ==
    { U64Of(0), U64Of(MaxSize * KiB - 1), U64Of(MaxSize * KiB), U64Max }

(***************************************************************************)
(* Text.  A string is its sequence of characters, a file its sequence of   *)
(* lines (BufRead::lines), an Option is <<>> (None) or <<x>> (Some(x)).    *)
(***************************************************************************)
Letters == { "a", "b" }

Chars == { "#", " ", "a" }

\* char::is_whitespace, on Chars
is_whitespace(c) == c = " "

\* str::trim_start and str::trim_end
RECURSIVE trim_start(_)
trim_start(line) ==
    IF line # <<>> /\ is_whitespace(line[1]) THEN trim_start(Tail(line)) ELSE line

RECURSIVE trim_end(_)
trim_end(line) ==
    IF line # <<>> /\ is_whitespace(line[Len(line)])
    THEN trim_end(SubSeq(line, 1, Len(line) - 1))
    ELSE line

\* str::trim
trim(line) == trim_end(trim_start(line))

\* line 50: the lines the loop passes over
is_skipped(line) == (line # <<>> /\ line[1] = "#") \/ line = <<>>

\* lines 47-56 on one file: the lines kept, each trimmed, in order
RECURSIVE read_lines(_)
read_lines(lines) ==
    IF lines = <<>> THEN <<>>
    ELSE IF is_skipped(lines[1]) THEN read_lines(Tail(lines))
    ELSE << trim(lines[1]) >> \o read_lines(Tail(lines))

\* collect_packages_from_lists, lines 40-60, when every file opens and reads
RECURSIVE collect_packages_from_lists(_)
collect_packages_from_lists(paths) ==
    IF paths = <<>> THEN <<>>
    ELSE read_lines(paths[1]) \o collect_packages_from_lists(Tail(paths))

\* sequences over S of length lo..hi
SeqsOf(S, lo, hi) == UNION { [1..n -> S] : n \in lo..hi }

(***************************************************************************)
(* The order of the phases of the driver.                                  *)
(***************************************************************************)
DownloadPhases ==
    << "INIT", "PREPARE_DIRS", "FETCH_MANIFESTS", "RESOLVE_FULL", "GUARD(full)",
       "DOWNLOAD", "SYNC" >>

Stage1Phases ==
    << "RESOLVE_STUB", "GUARD(stub)", "STAGE1_PREP", "STAGE1_EXTRACT", "SYNC" >>

Stage2Phases ==
    << "GUARD(full)", "WRITE_SCRIPT", "INCLUDE_EXTRA_SCRIPTS", "GUEST_EXEC", "SYNC" >>

VARIABLES
    pc,             \* the statement of main() to execute next
    status,         \* "running", "ok" (main returned) or "failed" (a panic)
    failed_call,    \* the call whose Err was unwrapped, None while none was
    dl_only,        \* --download-only
    s1_only,        \* --stage1-only
    clean_up,       \* --clean
    t,              \* the full solve: <<[pkgs, size]>>, <<>> before it
    all_packages,   \* t.create_metadata()
    st,             \* the stub solve: <<[pkgs, size]>>, <<>> before it
    stub_install,   \* st.create_metadata()
    count,          \* extract_packages: packages handled so far
    names,          \* collect_filenames(&all_packages)
    target,         \* what the run has done to the target directory
    archive0,       \* the archive cache as the run found it
    last_guard,     \* the last check_disk_usage call: <<[required, available, ok]>>
    config,         \* what read_config yields: [stub_packages, base_packages]
    matches,        \* the command line: [arch, include, include_files]
    extra_packages, \* lines 124-135: the --include names, then the list entries
    arches,         \* lines 112 and 136-140
    all_stages,     \* lines 152-154: the seeds of the full solve
    requested,      \* the name lists handed to calculate_deps, in order
    extra_scripts,  \* matches.values_of("scripts"), known once line 192 reads it
    trace,          \* the phases started, in order
    completed,      \* the phases completed, in order
    committed       \* the target as the last completed phase left it

vars ==
    << pc, status, failed_call, dl_only, s1_only, clean_up, t, all_packages, st,
       stub_install, count, names, target, archive0, last_guard, config, matches,
       extra_packages, arches, all_stages, requested, extra_scripts, trace,
       completed, committed >>

args == << dl_only, s1_only, clean_up, archive0, config, matches >>
solves == << t, all_packages, st, stub_install >>
seeds == << extra_packages, arches, all_stages, requested, extra_scripts >>
locals == << count, names, seeds >>

EmptyTarget(cache) ==
    [ lists_dir      |-> FALSE,     \* {target}/var/lib/apt/lists created
      archive_dir    |-> FALSE,     \* {target}/var/cache/apt/archives created
      manifests      |-> FALSE,     \* Packages indices fetched
      archive        |-> cache,     \* the files of the archive cache
      dev_dir        |-> FALSE,     \* {target}/dev created
      sources_list   |-> FALSE,     \* bootstrap_apt has written
      bootstrap_pack |-> FALSE,     \* extract_bootstrap_pack has written
      dev_nodes      |-> FALSE,     \* make_device_nodes has written
      extracted      |-> <<>>,      \* the packages extract_deb has unpacked
      script         |-> <<>>,      \* the install script, once written
      guest_ran      |-> FALSE ]    \* run_in_guest has run the script

\* main() at line 108, nothing read and nothing written yet
AtStart ==
    /\ pc = "read_config"
    /\ status = "running"
    /\ failed_call = None
    /\ t = <<>>
    /\ all_packages = <<>>
    /\ st = <<>>
    /\ stub_install = <<>>
    /\ count = 0
    /\ names = <<>>
    /\ target = EmptyTarget(archive0)
    /\ last_guard = <<>>
    /\ extra_packages = <<>>
    /\ arches = matches.arch
    /\ all_stages = <<>>
    /\ requested = <<>>
    /\ extra_scripts = <<>>
    /\ trace = << "INIT" >>
    /\ completed = <<>>
    /\ committed = target

\* a run for one architecture, with a stub and a base package and one list
\* of extra packages; any flags, any archive cache
Init ==
    /\ dl_only \in BOOLEAN
    /\ s1_only \in BOOLEAN
    /\ clean_up \in BOOLEAN
    /\ archive0 \in SUBSET FileNames
    /\ config = [ stub_packages |-> << <<"a">> >>, base_packages |-> << <<"b">> >> ]
    /\ matches = [ arch          |-> << "amd64" >>,
                   include       |-> <<>>,
                   include_files |-> << << << <<"#">>, <<"b", " ">> >> >> >> ]
    /\ AtStart

(***************************************************************************)
(* Control flow.  `.unwrap()` on an Err panics: the process ends there.    *)
(***************************************************************************)
Goto(label) ==
    /\ pc' = label
    /\ UNCHANGED << status, failed_call >>

Panic_carry_on(call) ==
    /\ pc' = pc
    /\ status' = "failed"
    /\ failed_call' = call

Panic(call) ==
    /\ pc' = "panicked"
    /\ status' = "failed"
    /\ failed_call' = call

Return ==
    /\ pc' = "done"
    /\ status' = "ok"
    /\ UNCHANGED failed_call

\* a step that starts phase ph, one inside a phase, one that completes ph
Starts(ph) == trace' = Append(trace, ph)
Within == UNCHANGED trace
Completes(ph) ==
    /\ completed' = Append(completed, ph)
    /\ committed' = target'
Unfinished == UNCHANGED << completed, committed >>

(***************************************************************************)
(* main(), lines 107-140: command line, configuration, package lists.      *)
(***************************************************************************)
ReadConfig ==
    /\ pc = "read_config"
    /\ \/ Goto("make_new_client")
       \/ Panic("read_config")
    /\ Within /\ Unfinished
    /\ UNCHANGED << args, solves, locals, target, last_guard >>

MakeNewClient ==
    /\ pc = "make_new_client"
    /\ \/ Goto("collect_packages_from_lists")
       \/ Panic("make_new_client")
    /\ Within /\ Unfinished
    /\ UNCHANGED << args, solves, locals, target, last_guard >>

\* lines 124-135: the --include names, extended by the entries of the
\* --include-files lists; reading the lists fails when one cannot be read
CollectPackagesFromLists ==
    /\ pc = "collect_packages_from_lists"
    /\ Within /\ Unfinished
    /\ UNCHANGED << args, solves, count, names, target, last_guard >>
    /\ UNCHANGED << arches, all_stages, requested, extra_scripts >>
    /\ LET includes == IF matches.include = <<>> THEN <<>> ELSE matches.include[1] IN
       IF matches.include_files = <<>>
       THEN extra_packages' = includes /\ Goto("arches")
       ELSE \/ /\ extra_packages' =
                     includes \o collect_packages_from_lists(matches.include_files[1])
               /\ Goto("arches")
            \/ /\ extra_packages' = includes
               /\ Panic("collect_packages_from_lists")

with_noarch_always(list) == Append(list, "all")

\* lines 138-140: push `all` unless the list contains it
with_noarch(list) ==
    IF \E i \in DOMAIN list : list[i] = "all" THEN list ELSE Append(list, "all")

\* lines 136-140
AppendNoarch ==
    /\ pc = "arches"
    /\ Within
    /\ UNCHANGED << args, solves, count, names, target, last_guard >>
    /\ UNCHANGED << extra_packages, all_stages, requested, extra_scripts >>
    /\ arches' = with_noarch(arches)
    /\ Goto("create_lists_dir")
    /\ Completes("INIT")

(***************************************************************************)
(* PREPARE_DIRS, lines 142-143.                                            *)
(***************************************************************************)
CreateListsDir ==
    /\ pc = "create_lists_dir"
    /\ Starts("PREPARE_DIRS") /\ Unfinished
    /\ \/ Goto("create_archive_dir") /\ target' = [target EXCEPT !.lists_dir = TRUE]
       \/ Panic("create_dir_all") /\ UNCHANGED target
    /\ UNCHANGED << args, solves, locals, last_guard >>

CreateArchiveDir ==
    /\ pc = "create_archive_dir"
    /\ Within
    /\ \/ /\ Goto("fetch_manifests")
          /\ target' = [target EXCEPT !.archive_dir = TRUE]
          /\ Completes("PREPARE_DIRS")
       \/ Panic("create_dir_all") /\ UNCHANGED target /\ Unfinished
    /\ UNCHANGED << args, solves, locals, last_guard >>

(***************************************************************************)
(* FETCH_MANIFESTS, lines 144-150.                                         *)
(***************************************************************************)
FetchManifests ==
    /\ pc = "fetch_manifests"
    /\ Starts("FETCH_MANIFESTS")
    /\ \/ /\ Goto("populate_pool")
          /\ target' = [target EXCEPT !.manifests = TRUE]
          /\ Completes("FETCH_MANIFESTS")
       \/ Panic("fetch_manifests") /\ UNCHANGED target /\ Unfinished
    /\ UNCHANGED << args, solves, locals, last_guard >>

(***************************************************************************)
(* RESOLVE_FULL, lines 151-158.                                            *)
(***************************************************************************)
seeds_of_full_solve_no_base(cfg, extra) == cfg.stub_packages \o extra

\* lines 152-154: stub_packages, extended by base_packages, then by the extras
seeds_of_full_solve(cfg, extra) == cfg.stub_packages \o cfg.base_packages \o extra

seeds_of_stub_solve_all(cfg, all) == all

\* line 172: the stub solve is asked for stub_packages
seeds_of_stub_solve(cfg, all) == cfg.stub_packages

\* lines 151-156: the seeds, then the pool
PopulatePool ==
    /\ pc = "populate_pool"
    /\ Starts("RESOLVE_FULL") /\ Unfinished
    /\ all_stages' = seeds_of_full_solve(config, extra_packages)
    /\ \/ Goto("calculate_deps")
       \/ Panic("populate_pool")
    /\ UNCHANGED << args, solves, count, names, target, last_guard >>
    /\ UNCHANGED << extra_packages, arches, requested, extra_scripts >>

CalculateDeps_best_effort ==
    /\ pc = "calculate_deps"
    /\ Within /\ Unfinished
    /\ \/ /\ Goto("create_metadata")
          /\ \E pkgs \in PackageLists, size \in SizeChanges :
                t' = << [pkgs |-> pkgs, size |-> size] >>
       \/ /\ pc' = "create_metadata"
          /\ failed_call' = "calculate_deps"
          /\ UNCHANGED status
          /\ \E pkgs \in PackageLists : t' = << [pkgs |-> pkgs, size |-> 0] >>
    /\ requested' = Append(requested, all_stages)
    /\ UNCHANGED << args, all_packages, st, stub_install, count, names, target, last_guard >>
    /\ UNCHANGED << extra_packages, arches, all_stages, extra_scripts >>

\* line 157: the solver answers with a transaction, or the seeds are unsatisfiable
CalculateDeps ==
    /\ pc = "calculate_deps"
    /\ Within /\ Unfinished
    /\ \/ /\ Goto("create_metadata")
          /\ \E pkgs \in PackageLists, size \in SizeChanges :
                t' = << [pkgs |-> pkgs, size |-> size] >>
       \/ Panic("calculate_deps") /\ UNCHANGED t
    /\ requested' = Append(requested, all_stages)
    /\ UNCHANGED << args, all_packages, st, stub_install, count, names, target, last_guard >>
    /\ UNCHANGED << extra_packages, arches, all_stages, extra_scripts >>

CreateMetadata ==
    /\ pc = "create_metadata"
    /\ Within
    /\ UNCHANGED << args, t, st, stub_install, locals, target, last_guard >>
    /\ \/ /\ Goto("check_disk_usage")
          /\ all_packages' = t[1].pkgs
          /\ Completes("RESOLVE_FULL")
       \/ Panic("create_metadata") /\ UNCHANGED all_packages /\ Unfinished

(***************************************************************************)
(* The disk-space guard, lines 163, 173 and 189: what each call passes as  *)
(* `required`, and the call itself.                                        *)
(***************************************************************************)
DownloadRequired == AsU64(t[1].size)

Stage1Required == AsU64(st[1].size)

Stage2Required_stub == AsU64(st[1].size)

Stage2Required == AsU64(t[1].size)

\* check_disk_usage(required, target_path).unwrap() as phase ph
Guard(ph, required, next) ==
    /\ Starts(ph)
    /\ UNCHANGED << args, solves, locals, target >>
    /\ \/ \E available \in AvailableSpaces :
            LET r == check_disk_usage(required, available) IN
            /\ last_guard' = << [ required  |-> required,
                                  available |-> available,
                                  ok        |-> r.ok,
                                  deficit   |-> r.deficit ] >>
            /\ IF r.ok
               THEN Goto(next) /\ Completes(ph)
               ELSE Panic("check_disk_usage") /\ Unfinished
       \/ \* available_space(target)? itself fails
          Panic("available_space") /\ UNCHANGED last_guard /\ Unfinished

CheckDiskUsageDownload ==
    /\ pc = "check_disk_usage"
    /\ Guard("GUARD(full)", DownloadRequired, "batch_download")

(***************************************************************************)
(* DOWNLOAD and SYNC, lines 164-170.                                       *)
(***************************************************************************)
\* batch_download stores every package under the basename of its path
BatchDownload ==
    /\ pc = "batch_download"
    /\ Starts("DOWNLOAD")
    /\ UNCHANGED << args, solves, locals, last_guard >>
    /\ \/ /\ \A i \in DOMAIN all_packages : file_name(all_packages[i].path) # None
          /\ target' = [target EXCEPT !.archive =
                 @ \cup { file_name(all_packages[i].path) : i \in DOMAIN all_packages }]
          /\ Goto("sync_download")
          /\ Completes("DOWNLOAD")
       \/ Panic("batch_download") /\ UNCHANGED target /\ Unfinished

AfterDownload_ignore == "calculate_deps_stub"

AfterDownload_stage1_first ==
    IF s1_only THEN "calculate_deps_stub"
    ELSE IF dl_only THEN "done" ELSE "calculate_deps_stub"

AfterDownload == IF dl_only THEN "done" ELSE "calculate_deps_stub"

\* lines 166-170: sync, then return with --download-only
SyncDownload ==
    /\ pc = "sync_download"
    /\ Starts("SYNC")
    /\ UNCHANGED << args, solves, locals, target, last_guard >>
    /\ Completes("SYNC")
    /\ IF AfterDownload = "done" THEN Return ELSE Goto(AfterDownload)

(***************************************************************************)
(* RESOLVE_STUB and GUARD(stub), lines 172-173.                            *)
(***************************************************************************)
\* line 172: a second solve in the same pool, of stub_packages alone; nothing
\* relates its answer to the first one's
CalculateDepsStub ==
    /\ pc = "calculate_deps_stub"
    /\ Starts("RESOLVE_STUB")
    /\ requested' = Append(requested, seeds_of_stub_solve(config, all_stages))
    /\ UNCHANGED << args, t, all_packages, stub_install, count, names, target, last_guard >>
    /\ UNCHANGED << extra_packages, arches, all_stages, extra_scripts >>
    /\ \/ /\ Goto("check_disk_usage_stub")
          /\ \E pkgs \in PackageLists, size \in SizeChanges :
                st' = << [pkgs |-> pkgs, size |-> size] >>
          /\ Completes("RESOLVE_STUB")
       \/ Panic("calculate_deps") /\ UNCHANGED st /\ Unfinished

CheckDiskUsageStub ==
    /\ pc = "check_disk_usage_stub"
    /\ Guard("GUARD(stub)", Stage1Required, "create_metadata_stub")

(***************************************************************************)
(* STAGE1_PREP, lines 174-179: the stub package list, then the skeleton.   *)
(***************************************************************************)
CreateMetadataStub ==
    /\ pc = "create_metadata_stub"
    /\ Starts("STAGE1_PREP") /\ Unfinished
    /\ UNCHANGED << args, t, all_packages, st, locals, target, last_guard >>
    /\ \/ Goto("create_dev") /\ stub_install' = st[1].pkgs
       \/ Panic("create_metadata") /\ UNCHANGED stub_install

CreateDev ==
    /\ pc = "create_dev"
    /\ Within /\ Unfinished
    /\ UNCHANGED << args, solves, locals, last_guard >>
    /\ \/ Goto("bootstrap_apt") /\ target' = [target EXCEPT !.dev_dir = TRUE]
       \/ Panic("create_dir_all") /\ UNCHANGED target

BootstrapApt ==
    /\ pc = "bootstrap_apt"
    /\ Within /\ Unfinished
    /\ UNCHANGED << args, solves, locals, last_guard >>
    /\ \/ Goto("extract_bootstrap_pack") /\ target' = [target EXCEPT !.sources_list = TRUE]
       \/ Panic("bootstrap_apt") /\ UNCHANGED target

ExtractBootstrapPack ==
    /\ pc = "extract_bootstrap_pack"
    /\ Within /\ Unfinished
    /\ UNCHANGED << args, solves, locals, last_guard >>
    /\ \/ Goto("make_device_nodes") /\ target' = [target EXCEPT !.bootstrap_pack = TRUE]
       \/ Panic("extract_bootstrap_pack") /\ UNCHANGED target

\* line 179: mknod needs privilege; without it the call fails
MakeDeviceNodes ==
    /\ pc = "make_device_nodes"
    /\ Within
    /\ UNCHANGED << args, solves, locals, last_guard >>
    /\ \/ /\ Goto("extract_packages")
          /\ target' = [target EXCEPT !.dev_nodes = TRUE]
          /\ Completes("STAGE1_PREP")
       \/ Panic("make_device_nodes") /\ UNCHANGED target /\ Unfinished

(***************************************************************************)
(* STAGE1_EXTRACT, line 181: extract_packages, lines 20-38.                *)
(***************************************************************************)
\* the call: count = 0
ExtractPackagesCall ==
    /\ pc = "extract_packages"
    /\ Starts("STAGE1_EXTRACT") /\ Unfinished
    /\ count' = 0
    /\ Goto("extract_packages_loop")
    /\ UNCHANGED << args, solves, names, seeds, target, last_guard >>

\* whether File::open(archive_path.join(filename)) finds the file
FileOpen_any(archive, filename) == TRUE

FileOpen(archive, filename) == filename \in archive

ExtractPackagesNext_carry_on ==
    /\ pc = "extract_packages_loop"
    /\ count < Len(stub_install)
    /\ Within /\ Unfinished
    /\ count' = count + 1
    /\ UNCHANGED << args, solves, names, seeds, last_guard >>
    /\ Goto("extract_packages_loop")
    /\ LET package == stub_install[count + 1]
           filename == file_name(package.path)
       IN  IF filename # None /\ FileOpen(target.archive, filename)
           THEN target' = [target EXCEPT !.extracted = Append(@, package.name)]
           ELSE UNCHANGED target

\* one turn of the loop, lines 22-35: the next package of the list
ExtractPackagesNext ==
    /\ pc = "extract_packages_loop"
    /\ count < Len(stub_install)
    /\ Within /\ Unfinished
    /\ count' = count + 1
    /\ UNCHANGED << args, solves, names, seeds, last_guard >>
    /\ LET package == stub_install[count + 1]
           filename == file_name(package.path)
       IN  \/ /\ filename # None
              /\ FileOpen(target.archive, filename)
              /\ \/ /\ target' = [target EXCEPT !.extracted = Append(@, package.name)]
                    /\ Goto("extract_packages_loop")
                 \/ \* install::extract_deb(f, target)? fails
                    Panic("extract_packages") /\ UNCHANGED target
           \/ /\ filename = None \/ ~FileOpen(target.archive, filename)
              /\ Panic("extract_packages")
              /\ UNCHANGED target

\* the list is exhausted: Ok(())
ExtractPackagesReturn ==
    /\ pc = "extract_packages_loop"
    /\ count = Len(stub_install)
    /\ Within
    /\ UNCHANGED << args, solves, locals, target, last_guard >>
    /\ Goto("sync_stage1")
    /\ Completes("STAGE1_EXTRACT")

AfterStage1_unguarded == IF s1_only THEN "done" ELSE "collect_filenames"

AfterStage1_ignore == "check_disk_usage_stage2"

AfterStage1 == IF s1_only THEN "done" ELSE "check_disk_usage_stage2"

\* lines 182-186: sync, then return with --stage1-only
SyncStage1 ==
    /\ pc = "sync_stage1"
    /\ Starts("SYNC")
    /\ UNCHANGED << args, solves, locals, target, last_guard >>
    /\ Completes("SYNC")
    /\ IF AfterStage1 = "done" THEN Return ELSE Goto(AfterStage1)

(***************************************************************************)
(* Stage 2, lines 188-196.                                                 *)
(***************************************************************************)
CheckDiskUsageStage2 ==
    /\ pc = "check_disk_usage_stage2"
    /\ Guard("GUARD(full)", Stage2Required, "collect_filenames")

collect_filenames_partial(packages) ==
    LET named == SelectSeq(packages, LAMBDA p : file_name(p.path) # None)
    IN  [ok |-> TRUE, value |-> [i \in DOMAIN named |-> file_name(named[i].path)]]

\* collect_filenames, lines 62-76: every basename, or Err and no list
collect_filenames(packages) ==
    IF \E i \in DOMAIN packages : file_name(packages[i].path) = None
    THEN [ok |-> FALSE, value |-> <<>>]
    ELSE [ok |-> TRUE,
          value |-> [i \in DOMAIN packages |-> file_name(packages[i].path)]]

CollectFilenames ==
    /\ pc = "collect_filenames"
    /\ Starts("WRITE_SCRIPT") /\ Unfinished
    /\ UNCHANGED << args, solves, count, seeds, target, last_guard >>
    /\ LET r == collect_filenames(all_packages) IN
       IF r.ok
       THEN Goto("write_install_script") /\ names' = r.value
       ELSE Panic("collect_filenames") /\ UNCHANGED names

WriteInstallScript ==
    /\ pc = "write_install_script"
    /\ Within
    /\ UNCHANGED << args, solves, locals, last_guard >>
    /\ \/ /\ Goto("include_extra_scripts")
          /\ target' = [target EXCEPT !.script =
                 << [names |-> names, clean |-> clean_up, body |-> <<>>] >>]
          /\ Completes("WRITE_SCRIPT")
       \/ Panic("write_install_script") /\ UNCHANGED target /\ Unfinished

\* the --scripts option: absent (<<>>), or a list of one or more paths
ScriptPaths == { "a.sh", "b.sh" }

ExtraScripts ==
    { <<>> } \cup { << l >> : l \in UNION { [1..n -> ScriptPaths] : n \in 1..MaxScripts } }

Included_banner_last(scripts, k) ==
    LET chunk[i \in 0..k] ==
            IF i = 0 THEN << "echo 'Running additional scripts ...';" >>
            ELSE chunk[i - 1] \o << <<"copy", scripts[i]>>, <<"# ===", scripts[i]>> >>
    IN chunk[k]

\* what include_extra_scripts has written once the first k scripts are in
Included(scripts, k) ==
    LET chunk[i \in 0..k] ==
            IF i = 0 THEN << "echo 'Running additional scripts ...';" >>
            ELSE chunk[i - 1] \o << <<"# ===", scripts[i]>>, <<"copy", scripts[i]>> >>
    IN chunk[k]

\* include_extra_scripts, lines 78-94, on the script written at line 191
IncludeExtraScripts ==
    /\ pc = "include_extra_scripts"
    /\ Starts("INCLUDE_EXTRA_SCRIPTS")
    /\ UNCHANGED << args, solves, count, names, last_guard >>
    /\ UNCHANGED << extra_packages, arches, all_stages, requested >>
    /\ \E given \in ExtraScripts :
          /\ extra_scripts' = given
          /\ IF given = <<>>
             THEN /\ UNCHANGED target
                  /\ Goto("run_in_guest")
                  /\ Completes("INCLUDE_EXTRA_SCRIPTS")
             ELSE LET scripts == given[1] IN
                  \/ /\ target' = [target EXCEPT !.script[1].body =
                                       @ \o Included(scripts, Len(scripts))]
                     /\ Goto("run_in_guest")
                     /\ Completes("INCLUDE_EXTRA_SCRIPTS")
                  \/ \* File::open(s)? fails at the k-th script
                     \E k \in 1..Len(scripts) :
                        /\ target' = [target EXCEPT !.script[1].body =
                                          @ \o Included(scripts, k - 1)]
                        /\ Panic("include_extra_scripts")
                        /\ Unfinished

RunInGuest ==
    /\ pc = "run_in_guest"
    /\ Starts("GUEST_EXEC")
    /\ UNCHANGED << args, solves, locals, last_guard >>
    /\ \/ /\ Goto("sync_stage2")
          /\ target' = [target EXCEPT !.guest_ran = TRUE]
          /\ Completes("GUEST_EXEC")
       \/ Panic("run_in_guest") /\ UNCHANGED target /\ Unfinished

SyncStage2_skipped ==
    /\ pc = "sync_stage2"
    /\ Within /\ Unfinished
    /\ UNCHANGED << args, solves, locals, target, last_guard >>
    /\ Return

\* lines 195-197: sync, and main returns
SyncStage2 ==
    /\ pc = "sync_stage2"
    /\ Starts("SYNC")
    /\ UNCHANGED << args, solves, locals, target, last_guard >>
    /\ Completes("SYNC")
    /\ Return

Next ==
    \/ ReadConfig
    \/ MakeNewClient
    \/ CollectPackagesFromLists
    \/ AppendNoarch
    \/ CreateListsDir
    \/ CreateArchiveDir
    \/ FetchManifests
    \/ PopulatePool
    \/ CalculateDeps
    \/ CreateMetadata
    \/ CheckDiskUsageDownload
    \/ BatchDownload
    \/ SyncDownload
    \/ CalculateDepsStub
    \/ CheckDiskUsageStub
    \/ CreateMetadataStub
    \/ CreateDev
    \/ BootstrapApt
    \/ ExtractBootstrapPack
    \/ MakeDeviceNodes
    \/ ExtractPackagesCall
    \/ ExtractPackagesNext
    \/ ExtractPackagesReturn
    \/ SyncStage1
    \/ CheckDiskUsageStage2
    \/ CollectFilenames
    \/ WriteInstallScript
    \/ IncludeExtraScripts
    \/ RunInGuest
    \/ SyncStage2

Spec == Init /\ [][Next]_vars

(***************************************************************************)
(* The run up to the stub solve, over the configurations and the --include *)
(* and --include-files options.                                            *)
(***************************************************************************)
\* a package name
Names == { << l >> : l \in Letters }

\* a list of the configuration, or the values of --include
NameLists == SeqsOf(Names, 0, MaxNames)

\* values_of("include"): None, or one or more names
IncludeOptions == { <<>> } \cup { << l >> : l \in NameLists \ { <<>> } }

\* values_of("include-files"): None, one list, two lists
IncludeFilesOptions ==
    { <<>>,
      << << << <<"#">>, <<"b", " ">> >> >> >>,
      << << << <<"#">>, <<"b", " ">> >>, << <<"a">> >> >> >> }

InitSeeds ==
    /\ dl_only \in BOOLEAN
    /\ s1_only = FALSE
    /\ clean_up = FALSE
    /\ archive0 = {}
    /\ config \in [ stub_packages : NameLists, base_packages : NameLists ]
    /\ matches \in [ arch          : { << "amd64" >> },
                     include       : IncludeOptions,
                     include_files : IncludeFilesOptions ]
    /\ AtStart

\* lines 107-172
NextSeeds ==
    \/ ReadConfig
    \/ MakeNewClient
    \/ CollectPackagesFromLists
    \/ AppendNoarch
    \/ CreateListsDir
    \/ CreateArchiveDir
    \/ FetchManifests
    \/ PopulatePool
    \/ CalculateDeps
    \/ CreateMetadata
    \/ CheckDiskUsageDownload
    \/ BatchDownload
    \/ SyncDownload
    \/ CalculateDepsStub

SpecSeeds == InitSeeds /\ [][NextSeeds]_vars

(***************************************************************************)
(* The run up to fetch_manifests, over the --arch lists.                   *)
(***************************************************************************)
ArchNames == { "amd64", "arm64", "all" }

\* values_of("arch").unwrap(): one or more architectures
ArchLists == SeqsOf(ArchNames, 1, MaxArches)

InitArches ==
    /\ dl_only = FALSE
    /\ s1_only = FALSE
    /\ clean_up = FALSE
    /\ archive0 = {}
    /\ config = [ stub_packages |-> << <<"a">> >>, base_packages |-> << <<"b">> >> ]
    /\ matches \in [ arch          : ArchLists,
                     include       : { <<>> },
                     include_files : { << << << <<"b">> >> >> >> } ]
    /\ AtStart

\* lines 107-146
NextArches ==
    \/ ReadConfig
    \/ MakeNewClient
    \/ CollectPackagesFromLists
    \/ AppendNoarch
    \/ CreateListsDir
    \/ CreateArchiveDir
    \/ FetchManifests

SpecArches == InitArches /\ [][NextArches]_vars

(***************************************************************************)
(* collect_packages_from_lists, over the --include-files lists.            *)
(***************************************************************************)
\* a line of a list, without its line end
Lines == SeqsOf(Chars, 0, MaxLineLen)

\* the lists of no more than n lines
ListFiles(n) == SeqsOf(Lines, 0, n)

\* one list, or two of no more than n lines together
ListPaths(n) ==
    { << f >> : f \in ListFiles(n) }
        \cup UNION { { << f, g >> : f \in [1..m -> Lines], g \in ListFiles(n - m) } :
                       m \in 0..n }

InitLists ==
    /\ dl_only = FALSE
    /\ s1_only = FALSE
    /\ clean_up = FALSE
    /\ archive0 = {}
    /\ config = [ stub_packages |-> << <<"a">> >>, base_packages |-> << <<"b">> >> ]
    /\ matches \in [ arch          : { << "amd64" >> },
                     include       : { <<>> },
                     include_files : { << paths >> : paths \in ListPaths(MaxLines) } ]
    /\ AtStart

\* lines 107-135
NextLists ==
    \/ ReadConfig
    \/ MakeNewClient
    \/ CollectPackagesFromLists

SpecLists == InitLists /\ [][NextLists]_vars

(***************************************************************************)
(* collect_filenames and write_install_script, lines 190-191, over the     *)
(* package lists: main() at line 190, after a run in which nothing failed. *)
(***************************************************************************)
\* the names of a package list
PackageNames(packages) == [ i \in DOMAIN packages |-> packages[i].name ]

\* the basenames a package list has
Basenames(packages) ==
    { file_name(packages[i].path) : i \in DOMAIN packages } \ { None }

InitNames ==
    /\ dl_only = FALSE
    /\ s1_only = FALSE
    /\ clean_up \in BOOLEAN
    /\ archive0 \in SUBSET FileNames
    /\ config = [ stub_packages |-> << <<"a">> >>, base_packages |-> << <<"b">> >> ]
    /\ matches = [ arch |-> << "amd64" >>, include |-> <<>>, include_files |-> <<>> ]
    /\ pc = "collect_filenames"
    /\ status = "running"
    /\ failed_call = None
    /\ all_packages \in PackageLists
    /\ t = << [pkgs |-> all_packages, size |-> 0] >>
    /\ stub_install \in { l \in PackageLists :
                            Basenames(l) \subseteq archive0 \cup Basenames(all_packages)
                            /\ \A i \in DOMAIN l : file_name(l[i].path) # None }
    /\ st = << [pkgs |-> stub_install, size |-> 0] >>
    /\ count = Len(stub_install)
    /\ names = <<>>
    /\ target = [ EmptyTarget(archive0 \cup Basenames(all_packages)) EXCEPT
                    !.lists_dir = TRUE, !.archive_dir = TRUE, !.manifests = TRUE,
                    !.dev_dir = TRUE, !.sources_list = TRUE,
                    !.bootstrap_pack = TRUE, !.dev_nodes = TRUE,
                    !.extracted = PackageNames(stub_install) ]
    /\ last_guard = << [ required  |-> AsU64(0),
                         available |-> U64Max,
                         ok        |-> check_disk_usage(AsU64(0), U64Max).ok,
                         deficit   |-> check_disk_usage(AsU64(0), U64Max).deficit ] >>
    /\ extra_packages = <<>>
    /\ arches = with_noarch(matches.arch)
    /\ all_stages = seeds_of_full_solve(config, extra_packages)
    /\ requested = << all_stages, seeds_of_stub_solve(config, all_stages) >>
    /\ extra_scripts = <<>>
    /\ trace = DownloadPhases \o Stage1Phases \o << "GUARD(full)" >>
    /\ completed = trace
    /\ committed = target

\* lines 190-191
NextNames ==
    \/ CollectFilenames
    \/ WriteInstallScript

SpecNames == InitNames /\ [][NextNames]_vars

(***************************************************************************)
(* Properties.                                                             *)
(***************************************************************************)
IsPrefix(s, r) == Len(s) <= Len(r) /\ s = SubSeq(r, 1, Len(s))

Occurs(ph, s) == \E i \in DOMAIN s : s[i] = ph

FullRun == DownloadPhases \o Stage1Phases \o Stage2Phases

\* the archive names of a package list
Archives(packages) ==
    { file_name(packages[i].path) : i \in DOMAIN packages }

\* C1: with neither --download-only nor --stage1-only, a run in which nothing
\* fails performs INIT, PREPARE_DIRS, FETCH_MANIFESTS, RESOLVE_FULL, GUARD(full),
\* DOWNLOAD, SYNC, RESOLVE_STUB, GUARD(stub), STAGE1_PREP, STAGE1_EXTRACT, SYNC,
\* GUARD(full), WRITE_SCRIPT, INCLUDE_EXTRA_SCRIPTS, GUEST_EXEC, SYNC, each once
\* and in this order, and a phase starts only when every earlier one is complete.
C1_FullRunInOrder ==
    (~dl_only /\ ~s1_only) =>
        /\ IsPrefix(trace, FullRun)
        /\ IsPrefix(completed, trace)
        /\ Len(trace) <= Len(completed) + 1
        /\ status = "ok" => trace = FullRun /\ completed = FullRun

C1_Witness ==
    ~dl_only /\ ~s1_only /\ status = "ok" /\ pc = "done" /\ target.guest_ran

\* C2: with --download-only a run in which nothing fails returns right after
\* DOWNLOAD and its SYNC, the archive directory holding every package of the
\* full resolved set; and at no point of such a run has {target}/dev been
\* created, the stub set been resolved, a package been extracted, the install
\* script been written or the guest been run.
C2_DownloadOnly ==
    dl_only =>
        /\ IsPrefix(trace, DownloadPhases)
        /\ ~target.dev_dir
        /\ st = <<>> /\ stub_install = <<>>
        /\ target.extracted = <<>>
        /\ target.script = <<>>
        /\ ~target.guest_ran
        /\ status = "ok" =>
              /\ trace = DownloadPhases /\ completed = DownloadPhases
              /\ target.archive = archive0 \cup Archives(all_packages)
              /\ None \notin target.archive

C2_Witness ==
    dl_only /\ status = "ok" /\ Len(all_packages) = MaxPkgs /\ archive0 = {}

\* C3: with --stage1-only and without --download-only a run in which nothing
\* fails returns right after STAGE1_EXTRACT and its SYNC; the stage-2 guard,
\* WRITE_SCRIPT, INCLUDE_EXTRA_SCRIPTS and GUEST_EXEC are never performed.
C3_Stage1Only ==
    (s1_only /\ ~dl_only) =>
        /\ IsPrefix(trace, DownloadPhases \o Stage1Phases)
        /\ names = <<>>
        /\ target.script = <<>>
        /\ ~target.guest_ran
        /\ status = "ok" =>
              /\ trace = DownloadPhases \o Stage1Phases
              /\ completed = trace

C3_Witness ==
    s1_only /\ ~dl_only /\ status = "ok" /\ Len(target.extracted) = MaxPkgs

\* the order of the phases the flags select
Order ==
    IF dl_only THEN DownloadPhases
    ELSE IF s1_only THEN DownloadPhases \o Stage1Phases
    ELSE FullRun

\* the fields of the target a phase writes
Writes(ph) ==
    CASE ph = "PREPARE_DIRS" -> { "lists_dir", "archive_dir" }
      [] ph = "FETCH_MANIFESTS" -> { "manifests" }
      [] ph = "DOWNLOAD" -> { "archive" }
      [] ph = "STAGE1_PREP" -> { "dev_dir", "sources_list", "bootstrap_pack", "dev_nodes" }
      [] ph = "STAGE1_EXTRACT" -> { "extracted" }
      [] ph = "WRITE_SCRIPT" -> { "script" }
      [] ph = "INCLUDE_EXTRA_SCRIPTS" -> { "script" }
      [] ph = "GUEST_EXEC" -> { "guest_ran" }
      [] OTHER -> {}

\* new holds everything old holds: nothing was undone
Keeps(old, new) ==
    /\ \A f \in { "lists_dir", "archive_dir", "manifests", "dev_dir", "sources_list",
                  "bootstrap_pack", "dev_nodes", "guest_ran" } : old[f] => new[f]
    /\ old.archive \subseteq new.archive
    /\ IsPrefix(old.extracted, new.extracted)
    /\ old.script # <<>> =>
          /\ new.script # <<>>
          /\ new.script[1].names = old.script[1].names
          /\ new.script[1].clean = old.script[1].clean
          /\ IsPrefix(old.script[1].body, new.script[1].body)

\* C4 as stated: whenever a phase fails the run ends in a failure state, no
\* phase after the failing one is started, and the target is in the state the
\* completed phases produced.
C4_AbortLeavesCompletedState ==
    /\ failed_call # None => status = "failed"
    /\ status = "failed" =>
          /\ pc = "panicked" /\ ~ENABLED Next
          /\ IsPrefix(trace, Order)
          /\ trace = completed \o << trace[Len(trace)] >>
          /\ target = committed

\* C4, amended: whenever a phase fails the run ends in a failure state and no
\* phase after the failing one is started; the target holds everything the
\* completed phases produced, and differs from that only by what the failing
\* phase had written before it failed (nothing is rolled back).
C4_AbortKeepsPartialState ==
    /\ failed_call # None => status = "failed"
    /\ status = "failed" =>
          /\ failed_call # None
          /\ pc = "panicked" /\ ~ENABLED Next
          /\ IsPrefix(trace, Order)
          /\ trace = completed \o << trace[Len(trace)] >>
          /\ Keeps(committed, target)
          /\ \A f \in DOMAIN target :
                target[f] # committed[f] => f \in Writes(trace[Len(trace)])

\* a failure in the middle of a phase, after the phase has written
C4_Witness ==
    /\ status = "failed"
    /\ failed_call = "extract_packages"
    /\ Len(target.extracted) = 1
    /\ committed.extracted = <<>>

\* C5: when the full resolve fails (the seed set is unsatisfiable) the run
\* fails before any download: batch_download is never called, and an archive
\* directory that was empty at the start is still empty.
C5_UnsatisfiableBeforeDownload ==
    (failed_call = "calculate_deps" /\ ~Occurs("RESOLVE_STUB", trace)) =>
        /\ status = "failed"
        /\ trace = << "INIT", "PREPARE_DIRS", "FETCH_MANIFESTS", "RESOLVE_FULL" >>
        /\ ~Occurs("DOWNLOAD", trace)
        /\ target.archive = archive0
        /\ archive0 = {} => target.archive = {}

C5_Witness ==
    /\ failed_call = "calculate_deps"
    /\ ~Occurs("RESOLVE_STUB", trace)
    /\ status = "failed"
    /\ archive0 = {}
    /\ target.archive_dir

\* the guard that opened the phase at position i of the trace failed
GuardFailedAt(i) ==
    /\ status = "failed"
    /\ failed_call \in { "check_disk_usage", "available_space" }
    /\ Len(trace) = i

BeforeDownload == Len(DownloadPhases) - 2

BeforeStage2 == Len(DownloadPhases \o Stage1Phases) + 1

\* C6: the guard is called with the size of the full resolved set before the
\* batch download and again before stage 2; when it fails before the download
\* no download is attempted, and when it fails before stage 2 no script is
\* written and the guest is not run.
C6_GuardsFullSize ==
    /\ pc = "batch_download" =>
          /\ last_guard # <<>>
          /\ last_guard[1].required = AsU64(t[1].size)
          /\ last_guard[1].ok
          /\ trace[Len(trace)] = "GUARD(full)"
    /\ pc = "collect_filenames" =>
          /\ last_guard # <<>>
          /\ last_guard[1].required = AsU64(t[1].size)
          /\ last_guard[1].ok
          /\ trace[Len(trace)] = "GUARD(full)"
    /\ \A i \in DOMAIN trace :
          trace[i] \in { "DOWNLOAD", "WRITE_SCRIPT" } =>
              i > 1 /\ trace[i - 1] = "GUARD(full)" /\ completed[i - 1] = "GUARD(full)"
    /\ GuardFailedAt(BeforeDownload) =>
          /\ trace[Len(trace)] = "GUARD(full)"
          /\ ~Occurs("DOWNLOAD", trace) /\ target.archive = archive0
    /\ GuardFailedAt(BeforeStage2) =>
          /\ trace[Len(trace)] = "GUARD(full)"
          /\ ~Occurs("WRITE_SCRIPT", trace) /\ ~Occurs("GUEST_EXEC", trace)
          /\ names = <<>> /\ target.script = <<>> /\ ~target.guest_ran

\* the stage-2 guard has failed on a full set larger than the stub set
C6_Witness ==
    /\ GuardFailedAt(BeforeStage2)
    /\ failed_call = "check_disk_usage"
    /\ last_guard[1].required = U64Of(MaxSize)
    /\ st[1].size < t[1].size

GuardCalls == { "check_disk_usage", "check_disk_usage_stub", "check_disk_usage_stage2" }

\* floor(available / 1024) < required, without dividing: available is below
\* required * 1024, or that product exceeds every u64; and by plain integer
\* arithmetic where both numbers are small
BelowRequired(required, available) ==
    /\ MulKiB(required) = <<>> \/ LtU64(available, MulKiB(required))
    /\ (IsSmall(required) /\ IsSmall(available)) =>
           (ToNat(available) \div KiB) < ToNat(required)

NotBelowRequired(required, available) ==
    /\ MulKiB(required) # <<>> /\ ~LtU64(available, MulKiB(required))
    /\ (IsSmall(required) /\ IsSmall(available)) =>
           (ToNat(available) \div KiB) >= ToNat(required)

\* C7: check_disk_usage(required_kb, target) fails exactly when the available
\* bytes divided by 1024, rounded down, are strictly fewer than required_kb;
\* it passes when the two are equal; and whichever it returns, the call
\* changes nothing of the target or of the driver's data.
C7_GuardDecision ==
    [][ (pc \in GuardCalls /\ failed_call' # "available_space") =>
          LET g == last_guard'[1] IN
          /\ ~g.ok => BelowRequired(g.required, g.available)
          /\ g.ok => NotBelowRequired(g.required, g.available)
          /\ DivKiB(g.available) = g.required => g.ok
          /\ ~g.ok => g.deficit # <<>>
          /\ (status' = "failed") <=> ~g.ok
          /\ target' = target
          /\ UNCHANGED << args, solves, locals >> ]_vars

\* the guard has passed with exactly the required space, and not a byte more
C7_Witness ==
    /\ last_guard # <<>>
    /\ last_guard[1].ok
    /\ last_guard[1].required = U64Of(MaxSize)
    /\ last_guard[1].available = U64Of(MaxSize * KiB)
    /\ status = "running"

\* C8: a negative or zero size requirement is treated as 0 by the guard: with
\* a size change d <= 0 from the solver, each guard call of the driver (before
\* the download, before stage 1, before stage 2) passes whatever the space
\* available.
C8_NonPositivePasses ==
    (last_guard # <<>> /\ Len(trace) > Len(completed)) =>
        LET ph == trace[Len(trace)]
            d == IF ph = "GUARD(stub)" THEN st[1].size ELSE t[1].size
        IN  (ph \in { "GUARD(full)", "GUARD(stub)" } /\ d <= 0) =>
                failed_call # "check_disk_usage"

\* C9: the driver enforces resolved_stub within resolved_full: when the stub
\* resolve returns a package that is not in the full resolved set, the run
\* fails and stage-1 extraction never finishes, whatever the archive cache
\* held before the run.
C9_StubWithinFull ==
    (st # <<>> /\ \E i \in DOMAIN st[1].pkgs :
                     \A j \in DOMAIN t[1].pkgs : st[1].pkgs[i] # t[1].pkgs[j]) =>
        /\ ~Occurs("STAGE1_EXTRACT", completed)
        /\ status # "ok"

\* C10: when make_device_nodes fails for lack of privilege, the driver has not
\* mutated the target before the failure: no directory created, no manifest or
\* package downloaded, no sources.list or bootstrap pack written.
C10_PrivilegeFailsBeforeMutation ==
    failed_call = "make_device_nodes" => target = EmptyTarget(archive0)

(***************************************************************************)
(* The command-line inputs: lists, seeds, architectures.                   *)
(***************************************************************************)
Range(s) == { s[i] : i \in DOMAIN s }

\* the lines of the lists, one list after the other
RECURSIVE AllLines(_)
AllLines(paths) ==
    IF paths = <<>> THEN <<>> ELSE paths[1] \o AllLines(Tail(paths))

IsComment(line) == line # <<>> /\ line[1] = "#"

IsBlank(line) == trim(line) = <<>>

\* the calls that read the configuration or a file named on the command line
ConfigCalls == { "read_config", "collect_packages_from_lists", "include_extra_scripts" }

\* C11: whenever the run fails because the configuration file, an
\* --include-files list or a --scripts fragment is missing or unreadable, the
\* failure occurs before any directory has been created under the target and
\* before anything has been fetched or extracted: the target is as it was
\* when the driver started.
C11_ConfigErrorBeforeMutation ==
    failed_call \in ConfigCalls => target = EmptyTarget(archive0)

\* C12: the names requested in the full resolve are those of stub_packages,
\* base_packages, the --include values and the entries of the --include-files
\* lists, nothing else and nothing less, whichever of the two options are
\* given; the stub resolve requests exactly stub_packages.
C12_SeedsOfTheSolves ==
    LET cli_includes == IF matches.include = <<>> THEN {}
                        ELSE Range(matches.include[1])
        list_entries == IF matches.include_files = <<>> THEN {}
                        ELSE Range(collect_packages_from_lists(matches.include_files[1]))
    IN  /\ Len(requested) <= 2
        /\ Len(requested) >= 1 =>
              Range(requested[1]) =
                  Range(config.stub_packages) \cup Range(config.base_packages)
                      \cup cli_includes \cup list_entries
        /\ Len(requested) = 2 => requested[2] = config.stub_packages

C12_Witness ==
    /\ Len(requested) = 2
    /\ matches.include # <<>> /\ matches.include_files # <<>>
    /\ config.base_packages # <<>>
    /\ Range(config.base_packages) \cap Range(config.stub_packages) = {}
    /\ Range(config.base_packages) \cap Range(extra_packages) = {}

\* C13: collect_packages_from_lists skips every line that begins with `#` and
\* every line that is empty after trimming, and returns every other line
\* trimmed: one entry per non-comment non-blank line, each non-empty, in
\* source order, the lists in argument order.
C13_SkipsCommentsAndBlanks ==
    (pc = "arches" /\ matches.include = <<>> /\ matches.include_files # <<>>) =>
        LET IsEntry(line) == ~IsComment(line) /\ ~IsBlank(line)
            kept == SelectSeq(AllLines(matches.include_files[1]), IsEntry)
        IN  /\ Len(extra_packages) = Len(kept)
            /\ \A i \in DOMAIN extra_packages :
                  extra_packages[i] = trim(kept[i]) /\ extra_packages[i] # <<>>

\* C14: the list handed to fetch_manifests contains `all`: the --arch list
\* itself when `all` is in it, and otherwise the --arch list with `all` as
\* its new last entry; either way the --arch values keep their places.
C14_NoarchAmongArches ==
    Occurs("FETCH_MANIFESTS", trace) =>
        /\ Occurs("all", arches)
        /\ IsPrefix(matches.arch, arches)
        /\ arches = IF Occurs("all", matches.arch) THEN matches.arch
                    ELSE matches.arch \o << "all" >>

C14_Witness ==
    /\ Occurs("FETCH_MANIFESTS", completed)
    /\ Len(matches.arch) = MaxArches
    /\ ~Occurs("all", matches.arch)
    /\ arches[MaxArches + 1] = "all"

(***************************************************************************)
(* Stage 1 and stage 2: extraction, the install script, sync.              *)
(***************************************************************************)
\* C15: write_install_script is handed one file name per package of the full
\* resolved set, the i-th being the basename of the i-th package's path, in
\* the solver's order; collect_filenames returns that list, as long as its
\* input, or fails, and then no list is used and no script written.
C15_NamesOfTheFullSet ==
    LET IsBasenames(list) ==
            /\ Len(list) = Len(all_packages)
            /\ \A i \in DOMAIN list :
                  list[i] = file_name(all_packages[i].path) /\ list[i] # None
    IN  /\ target.script # <<>> => IsBasenames(target.script[1].names)
        /\ (pc # "collect_filenames" /\ failed_call # "collect_filenames") =>
              IsBasenames(names)
        /\ failed_call = "collect_filenames" =>
              /\ names = <<>> /\ target.script = <<>>
              /\ \E i \in DOMAIN all_packages : file_name(all_packages[i].path) = None

C15_Witness ==
    /\ target.script # <<>>
    /\ Len(all_packages) = MaxPkgs
    /\ Range(stub_install) # Range(all_packages)

\* C16: include_extra_scripts appends the --scripts files to the install
\* script in the order given, each whole and right after a banner naming its
\* path; without --scripts it appends nothing.
C16_ScriptsInOrder ==
    Occurs("INCLUDE_EXTRA_SCRIPTS", completed) =>
        LET body == target.script[1].body IN
        IF extra_scripts = <<>> THEN body = <<>>
        ELSE LET scripts == extra_scripts[1] IN
             /\ Len(body) = 1 + 2 * Len(scripts)
             /\ \A i \in DOMAIN scripts :
                   /\ body[2 * i] = << "# ===", scripts[i] >>
                   /\ body[2 * i + 1] = << "copy", scripts[i] >>

C16_Witness ==
    /\ Occurs("INCLUDE_EXTRA_SCRIPTS", completed)
    /\ extra_scripts = << << "b.sh", "a.sh" >> >>

\* the phases that write in bulk
BulkPhases == { "DOWNLOAD", "STAGE1_EXTRACT", "GUEST_EXEC" }

\* C17: each of DOWNLOAD, STAGE1_EXTRACT and GUEST_EXEC that completes is
\* followed by SYNC: no other phase starts after it before SYNC, and a run
\* that returns, early or not, has performed that SYNC.
C17_SyncAfterBulk ==
    \A i \in DOMAIN completed :
        completed[i] \in BulkPhases =>
            /\ trace[i] = completed[i]
            /\ i < Len(trace) => trace[i + 1] = "SYNC"
            /\ status = "ok" => (i < Len(completed) /\ completed[i + 1] = "SYNC")

C17_Witness ==
    /\ status = "ok"
    /\ BulkPhases \subseteq Range(completed)
    /\ Cardinality({ i \in DOMAIN completed : completed[i] = "SYNC" }) = 3

\* C18: extract_packages extracts the packages of the stub set in the
\* solver's order, each at most once, the i-th only after all before it; when
\* opening or extracting one fails it returns the error and no later package
\* is extracted.
C18_ExtractsInOrder ==
    /\ IsPrefix(target.extracted, PackageNames(stub_install))
    /\ pc = "extract_packages_loop" => Len(target.extracted) = count
    /\ failed_call = "extract_packages" =>
          /\ pc = "panicked"
          /\ Len(target.extracted) = count - 1
    /\ "STAGE1_EXTRACT" \in Range(completed) =>
          target.extracted = PackageNames(stub_install)

C18_Witness ==
    /\ failed_call = "extract_packages"
    /\ Len(stub_install) = MaxPkgs
    /\ Len(target.extracted) = 1
    /\ count = 2

\* C19: with --download-only and --stage1-only both given, the run is the
\* --download-only run: it returns after DOWNLOAD and its SYNC and nothing of
\* stage 1 is done; and with --download-only the phases performed are the
\* same whatever --stage1-only and --clean are.
C19_DownloadOnlyWins ==
    /\ (dl_only /\ s1_only) =>
          /\ ~Occurs("RESOLVE_STUB", trace) /\ ~Occurs("STAGE1_EXTRACT", trace)
          /\ pc = "done" => completed = DownloadPhases
    /\ dl_only => IsPrefix(trace, Order) /\ Order = DownloadPhases
    /\ (dl_only /\ status = "ok") => trace = DownloadPhases

C19_Witness ==
    dl_only /\ s1_only /\ clean_up /\ pc = "done" /\ trace = DownloadPhases

====
